---- MODULE Spec2Model ----
(***************************************************************************)
(* Verification model of the festival website:                             *)
(*   - the route table and the page transition sequencer                   *)
(*     (AnimatedRoutes.jsx, PageWrapper.jsx),                              *)
(*   - the event detail lookup (EventDetails.jsx, eventsData.js),          *)
(*   - the contact form submission workflow (ContactMinecraft.onSubmit).   *)
(* Paths are sequences of segments: "/" is <<>>, "/event/robodrive" is     *)
(* <<"event", "robodrive">>.  Field values are sequences of characters.    *)
(***************************************************************************)
EXTENDS Integers, Sequences, FiniteSets, TLC

VARIABLES
    location,      \* useLocation().pathname, as a sequence of segments
    rendered,      \* children AnimatePresence currently renders: <<[key, phase, interrupted]>>
    crashed,       \* a render raised and React unmounted the tree
    navs,          \* navigation events so far (saturates at MaxNavs)
    eventsList,    \* the exported events array
    flagshipEvents, \* useMemo result of the mounted events section, <<>> when unmounted
    activeTab,     \* useState of the mounted events section, 0 for null
    showMore,      \* paths of the rendered EventDetails pages whose showMore is true
    selectedIndex, \* Newgallery: index of the image in the viewer, Null when closed
    direction,     \* Newgallery: direction of the last move (-1, 0, 1)
    galleryShowMore, \* Newgallery: the expanded grid is shown
    viewerShown,   \* Newgallery: index the viewer in the DOM was rendered with, Null when none
    isOpen,        \* Navbar: the mobile menu is open
    bodyOverflow,  \* document.body.style.overflow
    navbarMounted, \* the Navbar is mounted
    env,           \* import.meta.env: which EmailJS credentials are set
    storage,       \* condition of the "contacts" item of localStorage
    outbox,        \* the emailjs.sendForm calls made so far
    inst,          \* number of the mounted ContactMinecraft instance
    form,          \* field values of the mounted form
    errors,        \* formState.errors of the mounted form
    isSubmitting,  \* formState.isSubmitting of the mounted form
    isSubmitted,   \* formState.isSubmitted of the mounted form
    isSent,        \* useState(false) of the mounted form
    jobs,          \* one record per onSubmit invocation
    contacts,      \* localStorage["contacts"], parsed
    now            \* logical clock behind new Date()

navVars  == <<location, rendered, crashed, navs, eventsList, flagshipEvents, activeTab,
              showMore>>
widgetVars == <<selectedIndex, direction, galleryShowMore, viewerShown, isOpen,
                bodyOverflow, navbarMounted>>
formVars == <<env, storage, outbox, inst, form, errors, isSubmitting,
              isSubmitted, isSent, jobs, contacts, now>>
vars     == <<location, rendered, crashed, navs, eventsList, flagshipEvents,
              activeTab, showMore, selectedIndex, direction, galleryShowMore,
              viewerShown, isOpen, bodyOverflow, navbarMounted, env, storage, outbox, inst, form, errors, isSubmitting,
              isSubmitted, isSent, jobs, contacts, now>>

(***************************************************************************)
(* Content registry: eventsData.js                                         *)
(***************************************************************************)
events ==
    << [id |-> 1, title |-> "SKYCIRCUIT",      slug |-> "skycircuit",      isElite |-> TRUE, comingSoon |-> FALSE],
       [id |-> 2, title |-> "ROBODRIVE",       slug |-> "robodrive",       isElite |-> TRUE, comingSoon |-> TRUE],
       [id |-> 3, title |-> "HACK-THE-THRONE", slug |-> "hack-the-throne", isElite |-> TRUE, comingSoon |-> TRUE],
       [id |-> 4, title |-> "ARENAX",          slug |-> "arenax",          isElite |-> TRUE, comingSoon |-> TRUE] >>

\* The price strings carry a rupee sign in the source; it is written "Rs" here.
eventDetailsData ==
    "robodrive" :>
        [kind |-> "record", title |-> "ROBODRIVE", price |-> "Rs19000/-",
         tags |-> <<"Robotics", "Engineering", "Competition", "Innovation">>,
         hasTags |-> TRUE, badge |-> "FLAGSHIP EVENT",
         eventDate |-> "February 15-17, 2026", teamSize |-> "2-4 Members",
         venue |-> "IIIT Una Campus", contact |-> "events@meraki.com",
         registerLink |-> "#"] @@
    "skycircuit" :>
        [kind |-> "record", title |-> "SKYCIRCUIT", price |-> "",
         tags |-> <<"Aeromodelling", "Drones", "Aircrafts", "FPVs">>,
         hasTags |-> TRUE, badge |-> "POPULAR EVENT",
         eventDate |-> "5th February 2026", teamSize |-> "Open",
         venue |-> "Open Ground, IIIT Una",
         contact |-> "meraki@iiitu.ac.in | +91 7017488532",
         registerLink |-> "mailto:meraki@iiitu.ac.in"] @@
    "hack-the-throne" :>
        [kind |-> "record", title |-> "HACK-THE-THRONE", price |-> "Rs10000/-",
         tags |-> <<"Coding", "Hackathon", "Innovation", "Tech">>,
         hasTags |-> TRUE, badge |-> "COMPETITIVE",
         eventDate |-> "February 17, 2026", teamSize |-> "1-2 Members",
         venue |-> "Computer Lab, IIIT Una", contact |-> "tech@meraki.com",
         registerLink |-> "#"] @@
    "arenax" :>
        [kind |-> "record", title |-> "ARENAX", price |-> "Rs12000/-",
         tags |-> <<"Esports", "Gaming", "BGMI", "Valorant">>,
         hasTags |-> TRUE, badge |-> "SPECIAL EVENT",
         eventDate |-> "February 15-17, 2026", teamSize |-> "2-5 Members",
         venue |-> "Auditorium, IIIT Una", contact |-> "innovation@meraki.com",
         registerLink |-> "#"]

\* The record EventDetails substitutes when the lookup yields a falsy value.
NotFoundRecord ==
    [kind |-> "record", title |-> "Event Not Found", price |-> "Rs0/-",
     tags |-> <<>>, hasTags |-> TRUE, badge |-> "EVENT",
     eventDate |-> "TBA", teamSize |-> "TBA", venue |-> "TBA",
     contact |-> "events@meraki.com", registerLink |-> "#"]

\* Members every plain JavaScript object inherits from Object.prototype.
\* eventDetailsData is an object literal, so eventDetailsData[k] finds them.
ObjectPrototypeKeys ==
    {"constructor", "__proto__", "toString", "valueOf", "hasOwnProperty"}

\* What an inherited member looks like to the page: a function or the
\* prototype object, truthy, with no title and no tags property.
InheritedMember(k) ==
    [kind |-> "inherited", name |-> k, title |-> "undefined", hasTags |-> FALSE]

\* eventDetailsData[eventId]: own property, else prototype chain, else undefined.
GetProperty(k) ==
    IF k \in DOMAIN eventDetailsData THEN eventDetailsData[k]
    ELSE IF k \in ObjectPrototypeKeys THEN InheritedMember(k)
    ELSE [kind |-> "undefined"]

\* const eventData = eventDetailsData[eventId] || { title: "Event Not Found", ... }
eventData(eventId) ==
    LET v == GetProperty(eventId)
    IN  IF v.kind = "undefined" THEN NotFoundRecord ELSE v

\* A mutation: the find callback compares the title with the route parameter.
eventInfoByTitle(eventId) ==
    LET hits == {i \in 1..Len(eventsList) : eventsList[i].title = eventId}
    IN  IF hits = {} THEN [kind |-> "undefined"]
        ELSE eventsList[CHOOSE i \in hits : \A j \in hits : i <= j]

\* const eventInfo = events.find(e => e.slug === eventId)
eventInfo(eventId) ==
    LET hits == {i \in 1..Len(eventsList) : eventsList[i].slug = eventId}
    IN  IF hits = {} THEN [kind |-> "undefined"]
        ELSE eventsList[CHOOSE i \in hits : \A j \in hits : i <= j]

\* Rendering the page evaluates eventData.tags.map(...); it raises a
\* TypeError when eventData has no tags property.
RenderRaises(eventId) == ~ eventData(eventId).hasTags

(***************************************************************************)
(* Page resolver: the route table of AnimatedRoutes.jsx                    *)
(***************************************************************************)
routeTable ==
    << [path |-> <<>>,                           page |-> "home"],
       [path |-> <<"contact">>,                  page |-> "contact"],
       [path |-> <<"gallery">>,                  page |-> "gallery"],
       [path |-> <<"schedule">>,                 page |-> "schedule"],
       [path |-> <<"team">>,                     page |-> "team"],
       [path |-> <<"devteam">>,                  page |-> "dev-team"],
       [path |-> <<"event", ":eventId">>,        page |-> "event-detail"],
       [path |-> <<"workshop", ":workshopSlug">>, page |-> "workshop-detail"] >>

\* A template segment that starts with ':' binds any non-empty segment.
IsParam(seg) == seg \in {":eventId", ":workshopSlug"}

\* <Route path=...> matching, segment by segment.
Matches(template, path) ==
    /\ Len(template) = Len(path)
    /\ \A i \in 1..Len(template) : IsParam(template[i]) \/ template[i] = path[i]

\* Index of the route <Routes> selects for a path, 0 when none matches.
matchRoute(path) ==
    LET hits == {i \in 1..Len(routeTable) : Matches(routeTable[i].path, path)}
    IN  IF hits = {} THEN 0 ELSE CHOOSE i \in hits : \A j \in hits : i <= j

\* The page a path resolves to; "none" when <Routes> renders nothing.
PageOf(path) ==
    IF matchRoute(path) = 0 THEN "none" ELSE routeTable[matchRoute(path)].page

\* Slugs a detail route is visited with.
Slugs == {"robodrive", "skycircuit", "hack-the-throne", "arenax", "ghost",
          "constructor"}

\* Paths navigation events request: the navigation bar targets (including
\* "/about" of Navbar.jsx), the detail routes and the remaining routes.
Paths ==
    {<<>>, <<"contact">>, <<"gallery">>, <<"schedule">>, <<"team">>,
     <<"devteam">>, <<"about">>, <<"workshop", "w1">>}
    \cup {<<"event", s>> : s \in Slugs}

Home == <<>>

\* null of useState(null)
Null == -1

(***************************************************************************)
(* Transition sequencer: <AnimatePresence mode="wait"> around              *)
(* <Routes key={location.pathname}>, each page in a PageWrapper            *)
(***************************************************************************)
\* PageWrapper: initial="initial" animate="animate"; a fresh child enters.
PageWrapper(k) == [key |-> k, phase |-> "entering", interrupted |-> FALSE]

RECURSIVE Without(_, _)
Without(R, i) ==
    IF R = <<>> THEN <<>>
    ELSE IF i = 1 THEN Tail(R)
    ELSE <<Head(R)>> \o Without(Tail(R), i - 1)

HasKey(R, k)  == \E i \in 1..Len(R) : R[i].key = k
HasExiting(R) == \E i \in 1..Len(R) : R[i].phase = "exiting"

\* A mutation: a child still in its enter phase is not sent to exit.
MarkExitingShownOnly(R, k) ==
    [i \in 1..Len(R) |->
        IF R[i].key # k /\ R[i].phase = "shown"
        THEN [R[i] EXCEPT !.phase = "exiting"]
        ELSE R[i]]

\* A mutation: children are told apart by their page, not by their path.
MarkExitingByPage(R, k) ==
    [i \in 1..Len(R) |->
        IF PageOf(R[i].key) = PageOf(k)
        THEN IF R[i].phase = "exiting"
             THEN [R[i] EXCEPT !.phase = "entering", !.interrupted = FALSE]
             ELSE R[i]
        ELSE IF R[i].phase = "exiting"
             THEN R[i]
             ELSE [R[i] EXCEPT !.phase = "exiting",
                               !.interrupted = (R[i].phase = "entering")]]

\* Presence of the rendered children once the child key is k: a child whose
\* key is no longer present starts its exit variant, also when it is still
\* entering; an exiting child whose key is present again animates back.
MarkExiting(R, k) ==
    [i \in 1..Len(R) |->
        IF R[i].key = k
        THEN IF R[i].phase = "exiting"
             THEN [R[i] EXCEPT !.phase = "entering", !.interrupted = FALSE]
             ELSE R[i]
        ELSE IF R[i].phase = "exiting"
             THEN R[i]
             ELSE [R[i] EXCEPT !.phase = "exiting",
                               !.interrupted = (R[i].phase = "entering")]]

\* A mutation: the default mode "sync", the new child is rendered at once.
AdmitNewSync(R, k) ==
    IF HasKey(R, k) THEN R ELSE Append(R, PageWrapper(k))

\* mode="wait": while a child is exiting only the exiting child is rendered;
\* the child of the present key is mounted once nothing is exiting.
AdmitNew(R, k) ==
    IF HasKey(R, k) THEN R
    ELSE IF HasExiting(R) THEN R
    ELSE Append(R, PageWrapper(k))

\* One render of AnimatePresence with child key k.
AnimatePresence(R, k) == AdmitNew(MarkExiting(R, k), k)

\* Keys mounted by a render.
Mounted(Rold, Rnew) ==
    {Rnew[i].key : i \in 1..Len(Rnew)} \ {Rold[i].key : i \in 1..Len(Rold)}

\* A freshly mounted EventDetails page raises while rendering.
MountRaises(Rold, Rnew) ==
    \E k \in Mounted(Rold, Rnew) :
        PageOf(k) = "event-detail" /\ RenderRaises(k[2])

MaxNavs == 3      \* navigation events counted

Reverse(arr) == [i \in 1..Len(arr) |-> arr[Len(arr) + 1 - i]]

RECURSIVE filterElite(_)
\* A mutation: the filtered list is reversed (newest first).
filterReversed(arr) == Reverse(filterElite(arr))

\* events.filter(event => event.isElite)
filter(arr) == filterElite(arr)

\* The callback of the filter, applied front to back.
filterElite(arr) ==
    IF arr = <<>> THEN <<>>
    ELSE IF Head(arr).isElite THEN <<Head(arr)>> \o filterElite(Tail(arr))
    ELSE filterElite(Tail(arr))

\* A mutation: events.reverse() reorders the exported array in place.
AfterListingReversed(arr) == Reverse(arr)

\* The exported array after the section listed it: filter copies.
AfterListing(arr) == arr

\* useState(flagshipEvents[0]?.id || null)
InitialTab(list) == IF Len(list) > 0 THEN list[1].id ELSE 0

\* The events section lives in the home page: it is mounted with it, lists
\* the flagship events once (useMemo with no dependencies), and is dropped
\* when the home page is removed.
Section(Rold, Rnew) ==
    IF Home \in Mounted(Rold, Rnew)
    THEN /\ flagshipEvents' = filter(eventsList)
         /\ activeTab' = InitialTab(filter(eventsList))
         /\ eventsList' = AfterListing(eventsList)
    ELSE IF ~ HasKey(Rnew, Home)
    THEN /\ flagshipEvents' = <<>>
         /\ activeTab' = 0
         /\ eventsList' = eventsList
    ELSE UNCHANGED <<eventsList, flagshipEvents, activeTab>>

\* A mutation: showMore is kept outside the page and handed to the page
\* mounted next.
useStateCarried(expanded, Rold, Rnew) ==
    IF expanded = {}
    THEN {}
    ELSE {Rnew[i].key : i \in {n \in 1..Len(Rnew) : PageOf(Rnew[n].key) = "event-detail"}}

\* useState(false) of EventDetails: a page that is mounted starts with
\* showMore false, a page that stays keeps its state, a removed page takes
\* its state with it.
useState(expanded, Rold, Rnew) ==
    {k \in expanded : HasKey(Rnew, k) /\ k \notin Mounted(Rold, Rnew)}

\* Commit a render: an uncaught render error unmounts the whole tree.
Commit(Rold, Rnew) ==
    IF MountRaises(Rold, Rnew)
    THEN /\ rendered' = <<>> /\ crashed' = TRUE /\ Section(Rold, <<>>)
         /\ showMore' = {}
    ELSE /\ rendered' = Rnew /\ crashed' = FALSE /\ Section(Rold, Rnew)
         /\ showMore' = useState(showMore, Rold, Rnew)

\* navigate(to) of the router: the location changes and the tree renders.
navigate(p) ==
    /\ ~ crashed
    /\ location' = p
    /\ navs' = IF navs < MaxNavs THEN navs + 1 ELSE navs
    /\ Commit(rendered, AnimatePresence(rendered, p))

\* A navigation event: a link, navigate(), the address bar, back/forward.
Navigate(p) ==
    /\ navigate(p)
    /\ UNCHANGED formVars
    /\ UNCHANGED widgetVars

\* A tab of the events section is clicked: setActiveTab(event.id).
SelectTab(id) ==
    /\ ~ crashed
    /\ HasKey(rendered, Home)
    /\ \E i \in 1..Len(flagshipEvents) : flagshipEvents[i].id = id
    /\ activeTab' = id
    /\ UNCHANGED <<location, rendered, crashed, navs, eventsList, flagshipEvents, showMore>>
    /\ UNCHANGED formVars
    /\ UNCHANGED widgetVars

\* const activeEvent = flagshipEvents.find((event) => event.id === activeTab)
activeEvent ==
    LET hits == {i \in 1..Len(flagshipEvents) : flagshipEvents[i].id = activeTab}
    IN  IF hits = {} THEN [kind |-> "undefined"]
        ELSE flagshipEvents[CHOOSE i \in hits : \A j \in hits : i <= j]

\* The button of the detail panel: navigate(`/event/${activeEvent.slug}`).
OpenEvent ==
    /\ HasKey(rendered, Home)
    /\ "slug" \in DOMAIN activeEvent
    /\ Navigate(<<"event", activeEvent.slug>>)

\* The animate variant of a page finished (0.6 s).
EnterComplete(i) ==
    /\ ~ crashed
    /\ i \in 1..Len(rendered)
    /\ rendered[i].phase = "entering"
    /\ rendered' = [rendered EXCEPT ![i].phase = "shown"]
    /\ UNCHANGED <<location, crashed, navs, eventsList, flagshipEvents, activeTab, showMore>>
    /\ UNCHANGED formVars
    /\ UNCHANGED widgetVars

\* The exit variant of a page finished (0.4 s): the child is removed and
\* AnimatePresence renders again with the current location.
ExitComplete(i) ==
    /\ ~ crashed
    /\ i \in 1..Len(rendered)
    /\ rendered[i].phase = "exiting"
    /\ Commit(rendered, AnimatePresence(Without(rendered, i), location))
    /\ UNCHANGED <<location, navs>>
    /\ UNCHANGED formVars
    /\ UNCHANGED widgetVars

\* The "Show more" button of an event page in the DOM:
\* setShowMore(!showMore).
ToggleShowMore(i) ==
    /\ ~ crashed
    /\ i \in 1..Len(rendered)
    /\ PageOf(rendered[i].key) = "event-detail"
    /\ showMore' = IF rendered[i].key \in showMore
                   THEN showMore \ {rendered[i].key}
                   ELSE showMore \cup {rendered[i].key}
    /\ UNCHANGED <<location, rendered, crashed, navs, eventsList, flagshipEvents, activeTab>>
    /\ UNCHANGED formVars
    /\ UNCHANGED widgetVars

(***************************************************************************)
(* Gallery viewer: Newgallery.jsx                                          *)
(***************************************************************************)
ViewerLength  == 30     \* viewerImages.length
MosaicLength  == 6      \* galleryItems.length
DragThreshold == 100    \* info.offset.x beyond which a drag moves on

\* Horizontal offsets a drag may end with.
DragOffsets == {-101, -100, 0, 100, 101}

\* ToNumber of the language: null counts as 0 in arithmetic and comparison.
ToNumber(i) == IF i = Null THEN 0 ELSE i

\* A mutation: next on the last image wraps to the first one.
goNextWraps(i) ==
    IF i = ViewerLength - 1 THEN 0 ELSE ToNumber(i) + 1

\* The updater of goNext: i === viewerImages.length - 1 ? null : i + 1
goNext(i) ==
    IF i = ViewerLength - 1 THEN Null ELSE ToNumber(i) + 1

\* A mutation: previous always subtracts one.
goPrevUnguarded(i) == ToNumber(i) - 1

\* The updater of goPrev: i > 0 ? i - 1 : i
goPrev(i) == IF ToNumber(i) > 0 THEN i - 1 ELSE i

\* The viewer element in the DOM after selectedIndex became i: it is rendered
\* with i, or keeps its last render while it fades out.
ViewerAfter(i) == IF i # Null THEN i ELSE viewerShown

\* A thumbnail of the grid is clicked; the grid is covered while a viewer
\* is in the DOM.
OpenViewer(i) ==
    /\ viewerShown = Null
    /\ i \in 0..((IF galleryShowMore THEN ViewerLength ELSE MosaicLength) - 1)
    /\ direction' = 0
    /\ selectedIndex' = i
    /\ viewerShown' = i
    /\ UNCHANGED <<galleryShowMore, isOpen, bodyOverflow, navbarMounted>>
    /\ UNCHANGED <<navVars, formVars>>

\* SHOW MORE / HIDE below the grid.
ToggleGallery ==
    /\ viewerShown = Null
    /\ galleryShowMore' = ~ galleryShowMore
    /\ UNCHANGED <<selectedIndex, direction, viewerShown, isOpen, bodyOverflow, navbarMounted>>
    /\ UNCHANGED <<navVars, formVars>>

\* The right button, rendered while the viewer shows an image before the
\* last one.
NextButton ==
    /\ viewerShown # Null
    /\ viewerShown < ViewerLength - 1
    /\ direction' = 1
    /\ selectedIndex' = goNext(selectedIndex)
    /\ viewerShown' = ViewerAfter(goNext(selectedIndex))
    /\ UNCHANGED <<galleryShowMore, isOpen, bodyOverflow, navbarMounted>>
    /\ UNCHANGED <<navVars, formVars>>

\* The left button, rendered while the viewer shows an image after the
\* first one.
PrevButton ==
    /\ viewerShown # Null
    /\ viewerShown > 0
    /\ direction' = -1
    /\ selectedIndex' = goPrev(selectedIndex)
    /\ viewerShown' = ViewerAfter(goPrev(selectedIndex))
    /\ UNCHANGED <<galleryShowMore, isOpen, bodyOverflow, navbarMounted>>
    /\ UNCHANGED <<navVars, formVars>>

\* onDragEnd of the image: beyond the threshold to the left goNext, to the
\* right goPrev.
Drag(x) ==
    /\ viewerShown # Null
    /\ x \in DragOffsets
    /\ IF x < - DragThreshold
       THEN /\ direction' = 1
            /\ selectedIndex' = goNext(selectedIndex)
            /\ viewerShown' = ViewerAfter(goNext(selectedIndex))
       ELSE IF x > DragThreshold
       THEN /\ direction' = -1
            /\ selectedIndex' = goPrev(selectedIndex)
            /\ viewerShown' = ViewerAfter(goPrev(selectedIndex))
       ELSE UNCHANGED <<direction, selectedIndex, viewerShown>>
    /\ UNCHANGED <<galleryShowMore, isOpen, bodyOverflow, navbarMounted>>
    /\ UNCHANGED <<navVars, formVars>>

\* A click on the backdrop of the viewer: setSelectedIndex(null).
CloseViewer ==
    /\ viewerShown # Null
    /\ selectedIndex' = Null
    /\ UNCHANGED <<direction, viewerShown, galleryShowMore, isOpen, bodyOverflow, navbarMounted>>
    /\ UNCHANGED <<navVars, formVars>>

\* The fade-out of the closed viewer finished: it leaves the DOM.
ViewerExitComplete ==
    /\ selectedIndex = Null
    /\ viewerShown # Null
    /\ viewerShown' = Null
    /\ UNCHANGED <<selectedIndex, direction, galleryShowMore, isOpen, bodyOverflow, navbarMounted>>
    /\ UNCHANGED <<navVars, formVars>>

(***************************************************************************)
(* Navigation bar: mobile menu, scroll lock, links                         *)
(***************************************************************************)
\* The in-app link targets of navItems.
navItems == {Home, <<"schedule">>, <<"gallery">>, <<"team">>, <<"contact">>}

\* The in-app link targets of the desktop and mobile menus of Navbar.jsx.
NavbarLinks == {Home, <<"about">>}

LinkTargets == navItems \cup NavbarLinks

\* The sections the ABOUT and PARTNERS buttons scroll to.
Sections == {"about", "partners"}

\* A mutation: the handler opens the menu instead of toggling it.
toggleMenuOpens(open) == TRUE

\* const toggleMenu = () => setIsOpen(!isOpen)
toggleMenu(open) == ~ open

\* A mutation: the condition of the effect is inverted.
ScrollLockInverted(open) == IF open THEN "" ELSE "hidden"

\* The effect on [isOpen]: the body is locked while the menu is open.
ScrollLock(open) == IF open THEN "hidden" ELSE ""

\* The hamburger button.
ToggleMenu ==
    /\ navbarMounted
    /\ isOpen' = toggleMenu(isOpen)
    /\ bodyOverflow' = ScrollLock(toggleMenu(isOpen))
    /\ UNCHANGED <<selectedIndex, direction, galleryShowMore, viewerShown, navbarMounted>>
    /\ UNCHANGED <<navVars, formVars>>

\* A link of the slide-in panel: <Link to=... onClick={toggleMenu}>.
MenuLink(t) ==
    /\ navbarMounted
    /\ isOpen
    /\ t \in LinkTargets
    /\ navigate(t)
    /\ isOpen' = toggleMenu(isOpen)
    /\ bodyOverflow' = ScrollLock(toggleMenu(isOpen))
    /\ UNCHANGED <<selectedIndex, direction, galleryShowMore, viewerShown, navbarMounted>>
    /\ UNCHANGED formVars

\* A link of the desktop bar: <Link to=...>.
DesktopLink(t) ==
    /\ navbarMounted
    /\ t \in LinkTargets
    /\ navigate(t)
    /\ UNCHANGED widgetVars
    /\ UNCHANGED formVars

\* handleNavigation(sectionId), from the bar or from the panel: off the
\* home path navigate(`/#${sectionId}`), on it scrollToSection; then the
\* menu is closed when open.
handleNavigation(sectionId) ==
    /\ navbarMounted
    /\ sectionId \in Sections
    /\ IF location # Home
       THEN navigate(Home)
       ELSE UNCHANGED navVars
    /\ isOpen' = IF isOpen THEN toggleMenu(isOpen) ELSE isOpen
    /\ bodyOverflow' = ScrollLock(IF isOpen THEN toggleMenu(isOpen) ELSE isOpen)
    /\ UNCHANGED <<selectedIndex, direction, galleryShowMore, viewerShown, navbarMounted>>
    /\ UNCHANGED formVars

\* The logo: <Link to="/" onClick={() => isOpen && toggleMenu()}>.
LogoLink ==
    /\ navbarMounted
    /\ navigate(Home)
    /\ isOpen' = IF isOpen THEN toggleMenu(isOpen) ELSE isOpen
    /\ bodyOverflow' = ScrollLock(IF isOpen THEN toggleMenu(isOpen) ELSE isOpen)
    /\ UNCHANGED <<selectedIndex, direction, galleryShowMore, viewerShown, navbarMounted>>
    /\ UNCHANGED formVars

\* A click on the backdrop of the open menu: onClick={toggleMenu}.
BackdropClick ==
    /\ navbarMounted
    /\ isOpen
    /\ isOpen' = toggleMenu(isOpen)
    /\ bodyOverflow' = ScrollLock(toggleMenu(isOpen))
    /\ UNCHANGED <<selectedIndex, direction, galleryShowMore, viewerShown, navbarMounted>>
    /\ UNCHANGED <<navVars, formVars>>

\* The navigation bar unmounts: its state is dropped and the cleanup of the
\* effect runs.
NavbarUnmount ==
    /\ navbarMounted
    /\ navbarMounted' = FALSE
    /\ isOpen' = FALSE
    /\ bodyOverflow' = ""
    /\ UNCHANGED <<selectedIndex, direction, galleryShowMore, viewerShown>>
    /\ UNCHANGED <<navVars, formVars>>

\* The navigation bar mounts: useState(false), and the effect runs.
NavbarMount ==
    /\ ~ navbarMounted
    /\ navbarMounted' = TRUE
    /\ isOpen' = FALSE
    /\ bodyOverflow' = ScrollLock(FALSE)
    /\ UNCHANGED <<selectedIndex, direction, galleryShowMore, viewerShown>>
    /\ UNCHANGED <<navVars, formVars>>

(***************************************************************************)
(* Contact form: validation rules of the register() calls                  *)
(***************************************************************************)
Fields == {"name", "email", "subject", "message"}

NameMinLength    == 2
SubjectMinLength == 3
MessageMinLength == 8

Filled(n) == [i \in 1..n |-> "x"]

EmptyForm == [name |-> <<>>, email |-> <<>>, subject |-> <<>>, message |-> <<>>]

\* Values typed into the fields: empty, too short, and valid ones; for the
\* address also one without a dot and one with a blank.
NameInputs    == {<<>>, Filled(1), Filled(2)}
EmailInputs   == {<<>>, <<"a", "@", "b">>, <<"a", " ", "@", "b", ".", "c">>,
                  <<"a", "@", "b", ".", "c">>}
SubjectInputs == {<<>>, Filled(2), Filled(3)}
MessageInputs == {<<>>, Filled(7), Filled(8)}

InputsOf(f) ==
    CASE f = "name"    -> NameInputs
      [] f = "email"   -> EmailInputs
      [] f = "subject" -> SubjectInputs
      [] f = "message" -> MessageInputs

\* [^\s@]
Plain(c) == c \notin {" ", "@"}

\* /^[^\s@]+@[^\s@]+\.[^\s@]+$/ : i is the position of '@', j of the dot.
EmailPattern(v) ==
    \E i \in 2..Len(v) : \E j \in (i + 2)..(Len(v) - 1) :
        /\ v[i] = "@"
        /\ v[j] = "."
        /\ \A k \in 1..Len(v) : k \notin {i, j} => Plain(v[k])

\* required: the value is not the empty string.
Required(v) == v # <<>>

\* A mutation: the minimum length of the name is not enforced.
FieldValidNoNameMin(f, v) ==
    CASE f = "name"    -> Required(v)
      [] f = "email"   -> Required(v) /\ EmailPattern(v)
      [] f = "subject" -> Required(v) /\ Len(v) >= SubjectMinLength
      [] f = "message" -> Required(v) /\ Len(v) >= MessageMinLength

\* The rules passed to register() for each field.
FieldValid(f, v) ==
    CASE f = "name"    -> Required(v) /\ Len(v) >= NameMinLength
      [] f = "email"   -> Required(v) /\ EmailPattern(v)
      [] f = "subject" -> Required(v) /\ Len(v) >= SubjectMinLength
      [] f = "message" -> Required(v) /\ Len(v) >= MessageMinLength

\* The fields handleSubmit reports in formState.errors.
InvalidFields(data) == {f \in Fields : ~ FieldValid(f, data[f])}

(***************************************************************************)
(* Contact form: ContactMinecraft.onSubmit                                 *)
(***************************************************************************)
MaxSubmits   == 2      \* onSubmit invocations explored
MaxInstances == 2      \* times the contact page is mounted

Credentials == {"SERVICE_ID", "TEMPLATE_ID", "PUBLIC_KEY"}

\* A mutation: the send is skipped only when all three are unset (&& for ||).
MissingEnvAll == \A c \in Credentials : ~ env[c]

\* !SERVICE_ID || !TEMPLATE_ID || !PUBLIC_KEY
MissingEnv == \E c \in Credentials : ~ env[c]

\* A mutation: the disabled attribute is missing.
SubmitDisabledNever == FALSE

\* A mutation: the control looks at isSubmitting only.
SubmitDisabledSubmittingOnly == isSubmitting

\* disabled={isSubmitting || isSent}
SubmitDisabled == isSubmitting \/ isSent

\* if (!data.name || !data.email || !data.subject || !data.message) return;
EarlyReturn(data) == \E f \in Fields : data[f] = <<>>

\* The conditions of the "contacts" item of localStorage: a JSON array; a
\* value that is no JSON array (JSON.parse or existing.push raises); storage
\* that refuses the access (getItem or setItem raises).
StorageStates == {"ok", "corrupt", "denied"}

\* JSON.parse(localStorage.getItem("contacts") || "[]"), existing.push or
\* localStorage.setItem raises.
StorageRaises == storage # "ok"

\* emailjs.sendForm(SERVICE_ID, TEMPLATE_ID, formRef.current, PUBLIC_KEY):
\* one call leaves for the mail service.
sendForm(sent, j, data) == Append(sent, [job |-> j, payload |-> data])

\* A mutation: the write replaces the log by the new entry.
pushOverwrite(existing, data, t) ==
    <<[name |-> data.name, email |-> data.email, subject |-> data.subject,
       message |-> data.message, createdAt |-> t]>>

\* A mutation: unshift for push, the new entry goes to the front.
unshift(existing, data, t) ==
    <<[name |-> data.name, email |-> data.email, subject |-> data.subject,
       message |-> data.message, createdAt |-> t]>> \o existing

\* existing.push({ ...data, createdAt: new Date().toISOString() })
push(existing, data, t) ==
    Append(existing,
           [name |-> data.name, email |-> data.email, subject |-> data.subject,
            message |-> data.message, createdAt |-> t])

\* A mutation: the form is not reset.
resetKeeps(f) == f

\* reset(): the fields return to their default values.
reset(f) == EmptyForm

\* The job record of a fresh onSubmit invocation.
NewJob(data) ==
    [inst |-> inst, data |-> data, pc |-> "start", delivery |-> "none",
     payload |-> <<>>, backup |-> "none", appendedAt |-> 0, alerted |-> FALSE,
     resetDone |-> FALSE]

\* The user edits one field; the field is validated again (mode onTouched).
TypeField(f, v) ==
    /\ v \in InputsOf(f)
    /\ form[f] # v
    /\ form' = [form EXCEPT ![f] = v]
    /\ errors' = IF FieldValid(f, v) THEN errors \ {f} ELSE errors \cup {f}
    /\ UNCHANGED <<env, storage, outbox, inst, isSubmitting, isSubmitted, isSent, jobs, contacts, now>>
    /\ UNCHANGED navVars
    /\ UNCHANGED widgetVars

\* The submit control is pressed: handleSubmit validates and, when every
\* rule passes, runs onSubmit up to its first await.
Submit ==
    /\ ~ SubmitDisabled
    /\ Len(jobs) < MaxSubmits
    /\ isSubmitted' = TRUE
    /\ LET bad == InvalidFields(form) IN
       IF bad # {}
       THEN /\ errors' = bad
            /\ UNCHANGED <<env, storage, outbox, inst, form, isSubmitting, isSent, jobs, contacts, now>>
       ELSE IF EarlyReturn(form)
       THEN /\ errors' = {}
            /\ UNCHANGED <<env, storage, outbox, inst, form, isSubmitting, isSent, jobs, contacts, now>>
       ELSE IF MissingEnv /\ StorageRaises
       THEN \* console.warn, no sendForm; the backup raises: catch and finally
            \* run at once and the promise handleSubmit awaits settles
            /\ errors' = {}
            /\ isSubmitting' = FALSE
            /\ isSent' = TRUE
            /\ jobs' = Append(jobs, [NewJob(form) EXCEPT !.pc = "timer",
                                        !.delivery = "skipped", !.backup = "raised",
                                        !.alerted = TRUE])
            /\ UNCHANGED <<env, storage, outbox, inst, form, contacts, now>>
       ELSE IF MissingEnv
       THEN \* console.warn, no sendForm; the backup is written at once
            /\ errors' = {}
            /\ isSubmitting' = TRUE
            /\ isSent' = TRUE
            /\ contacts' = push(contacts, form, now)
            /\ now' = now + 1
            /\ jobs' = Append(jobs, [NewJob(form) EXCEPT !.pc = "delay",
                                        !.delivery = "skipped", !.backup = "written",
                                        !.appendedAt = now])
            /\ UNCHANGED <<env, storage, outbox, inst, form>>
       ELSE \* await emailjs.sendForm(SERVICE_ID, TEMPLATE_ID, formRef.current, PUBLIC_KEY)
            /\ errors' = {}
            /\ isSubmitting' = TRUE
            /\ isSent' = TRUE
            /\ jobs' = Append(jobs, [NewJob(form) EXCEPT !.pc = "sending",
                                        !.delivery = "pending", !.payload = form])
            /\ outbox' = sendForm(outbox, Len(jobs) + 1, form)
            /\ UNCHANGED <<env, storage, inst, form, contacts, now>>
    /\ UNCHANGED navVars
    /\ UNCHANGED widgetVars

\* A mutation: the notice is given although the backup was written.
DeliveryAcceptedNotice(j) ==
    /\ j \in 1..Len(jobs)
    /\ jobs[j].pc = "sending"
    /\ ~ StorageRaises
    /\ contacts' = push(contacts, jobs[j].data, now)
    /\ now' = now + 1
    /\ jobs' = [jobs EXCEPT ![j].pc = "delay", ![j].delivery = "accepted",
                            ![j].backup = "written", ![j].appendedAt = now,
                            ![j].alerted = TRUE]
    /\ UNCHANGED <<env, storage, outbox, inst, form, errors, isSubmitting, isSubmitted, isSent>>
    /\ UNCHANGED navVars
    /\ UNCHANGED widgetVars

\* A mutation: the backup takes the values the form holds when the delivery
\* settles, not the data handed to onSubmit.
DeliveryAcceptedLiveForm(j) ==
    /\ j \in 1..Len(jobs)
    /\ jobs[j].pc = "sending"
    /\ ~ StorageRaises
    /\ contacts' = push(contacts, form, now)
    /\ now' = now + 1
    /\ jobs' = [jobs EXCEPT ![j].pc = "delay", ![j].delivery = "accepted",
                            ![j].backup = "written", ![j].appendedAt = now]
    /\ UNCHANGED <<env, storage, outbox, inst, form, errors, isSubmitting, isSubmitted, isSent>>
    /\ UNCHANGED navVars
    /\ UNCHANGED widgetVars

\* sendForm resolved: the backup is written, then the 700 ms delay starts.
DeliveryAccepted(j) ==
    /\ j \in 1..Len(jobs)
    /\ jobs[j].pc = "sending"
    /\ ~ StorageRaises
    /\ contacts' = push(contacts, jobs[j].data, now)
    /\ now' = now + 1
    /\ jobs' = [jobs EXCEPT ![j].pc = "delay", ![j].delivery = "accepted",
                            ![j].backup = "written", ![j].appendedAt = now]
    /\ UNCHANGED <<env, storage, outbox, inst, form, errors, isSubmitting, isSubmitted, isSent>>
    /\ UNCHANGED navVars
    /\ UNCHANGED widgetVars

\* A mutation: the exception of the backup leaves onSubmit: no notice and
\* no reset timer.
BackupRaisesEscapes(j) ==
    /\ j \in 1..Len(jobs)
    /\ jobs[j].pc = "sending"
    /\ StorageRaises
    /\ jobs' = [jobs EXCEPT ![j].pc = "done", ![j].delivery = "accepted",
                            ![j].backup = "raised"]
    /\ isSubmitting' = IF jobs[j].inst = inst THEN FALSE ELSE isSubmitting
    /\ UNCHANGED <<env, storage, outbox, inst, form, errors, isSubmitted, isSent, contacts, now>>
    /\ UNCHANGED navVars
    /\ UNCHANGED widgetVars

\* sendForm resolved, then getItem, JSON.parse, push or setItem raises: catch
\* logs and alerts, finally arms the 1100 ms timer, and the promise
\* handleSubmit awaits settles.
BackupRaises(j) ==
    /\ j \in 1..Len(jobs)
    /\ jobs[j].pc = "sending"
    /\ StorageRaises
    /\ jobs' = [jobs EXCEPT ![j].pc = "timer", ![j].delivery = "accepted",
                            ![j].backup = "raised", ![j].alerted = TRUE]
    /\ isSubmitting' = IF jobs[j].inst = inst THEN FALSE ELSE isSubmitting
    /\ UNCHANGED <<env, storage, outbox, inst, form, errors, isSubmitted, isSent, contacts, now>>
    /\ UNCHANGED navVars
    /\ UNCHANGED widgetVars

\* A mutation: the reset timer is armed on the success path only.
DeliveryRaisesNoTimer(j) ==
    /\ j \in 1..Len(jobs)
    /\ jobs[j].pc = "sending"
    /\ jobs' = [jobs EXCEPT ![j].pc = "error", ![j].delivery = "raised",
                            ![j].alerted = TRUE]
    /\ isSubmitting' = IF jobs[j].inst = inst THEN FALSE ELSE isSubmitting
    /\ UNCHANGED <<env, storage, outbox, inst, form, errors, isSubmitted, isSent, contacts, now>>
    /\ UNCHANGED navVars
    /\ UNCHANGED widgetVars

\* A mutation: a rejected sendForm is sent again.
DeliveryRaisesRetry(j) ==
    /\ j \in 1..Len(jobs)
    /\ jobs[j].pc = "sending"
    /\ Len(outbox) <= MaxSubmits
    /\ outbox' = sendForm(outbox, j, jobs[j].payload)
    /\ UNCHANGED <<env, storage, inst, form, errors, isSubmitting, isSubmitted, isSent,
                   jobs, contacts, now>>
    /\ UNCHANGED navVars
    /\ UNCHANGED widgetVars

\* A mutation: the catch block swallows the error without a notice.
DeliveryRaisesSwallowed(j) ==
    /\ j \in 1..Len(jobs)
    /\ jobs[j].pc = "sending"
    /\ jobs' = [jobs EXCEPT ![j].pc = "timer", ![j].delivery = "raised"]
    /\ isSubmitting' = IF jobs[j].inst = inst THEN FALSE ELSE isSubmitting
    /\ UNCHANGED <<env, storage, outbox, inst, form, errors, isSubmitted, isSent, contacts, now>>
    /\ UNCHANGED navVars
    /\ UNCHANGED widgetVars

\* sendForm rejected: catch logs and alerts, finally arms the 1100 ms timer,
\* and the promise handleSubmit awaits settles.
DeliveryRaises(j) ==
    /\ j \in 1..Len(jobs)
    /\ jobs[j].pc = "sending"
    /\ jobs' = [jobs EXCEPT ![j].pc = "timer", ![j].delivery = "raised",
                            ![j].alerted = TRUE]
    /\ isSubmitting' = IF jobs[j].inst = inst THEN FALSE ELSE isSubmitting
    /\ UNCHANGED <<env, storage, outbox, inst, form, errors, isSubmitted, isSent, contacts, now>>
    /\ UNCHANGED navVars
    /\ UNCHANGED widgetVars

\* A mutation: the delay is raced against the delivery and ends the wait.
DelayElapsedRaced(j) ==
    /\ j \in 1..Len(jobs)
    /\ jobs[j].pc \in {"sending", "delay"}
    /\ jobs' = [jobs EXCEPT ![j].pc = "timer", ![j].resetDone = TRUE]
    /\ form' = IF jobs[j].inst = inst THEN reset(form) ELSE form
    /\ errors' = IF jobs[j].inst = inst THEN {} ELSE errors
    /\ isSubmitting' = IF jobs[j].inst = inst THEN FALSE ELSE isSubmitting
    /\ isSubmitted' = IF jobs[j].inst = inst THEN FALSE ELSE isSubmitted
    /\ UNCHANGED <<env, storage, outbox, inst, isSent, contacts, now>>
    /\ UNCHANGED navVars
    /\ UNCHANGED widgetVars

\* The 700 ms delay elapsed: reset(), finally arms the 1100 ms timer, and
\* the promise handleSubmit awaits settles.
DelayElapsed(j) ==
    /\ j \in 1..Len(jobs)
    /\ jobs[j].pc = "delay"
    /\ jobs' = [jobs EXCEPT ![j].pc = "timer", ![j].resetDone = TRUE]
    /\ form' = IF jobs[j].inst = inst THEN reset(form) ELSE form
    /\ errors' = IF jobs[j].inst = inst THEN {} ELSE errors
    /\ isSubmitting' = IF jobs[j].inst = inst THEN FALSE ELSE isSubmitting
    /\ isSubmitted' = IF jobs[j].inst = inst THEN FALSE ELSE isSubmitted
    /\ UNCHANGED <<env, storage, outbox, inst, isSent, contacts, now>>
    /\ UNCHANGED navVars
    /\ UNCHANGED widgetVars

\* setTimeout(() => setIsSent(false), 1100) fires.
TimerFires(j) ==
    /\ j \in 1..Len(jobs)
    /\ jobs[j].pc = "timer"
    /\ jobs' = [jobs EXCEPT ![j].pc = "done"]
    /\ isSent' = IF jobs[j].inst = inst THEN FALSE ELSE isSent
    /\ UNCHANGED <<env, storage, outbox, inst, form, errors, isSubmitting, isSubmitted, contacts, now>>
    /\ UNCHANGED navVars
    /\ UNCHANGED widgetVars

\* The contact page is left and entered again: <Routes key=...> unmounts the
\* form and mounts a fresh instance; pending work of the old one goes on.
Remount ==
    /\ inst < MaxInstances
    /\ inst' = inst + 1
    /\ form' = EmptyForm
    /\ errors' = {}
    /\ isSubmitting' = FALSE
    /\ isSubmitted' = FALSE
    /\ isSent' = FALSE
    /\ UNCHANGED <<env, storage, outbox, jobs, contacts, now>>
    /\ UNCHANGED navVars
    /\ UNCHANGED widgetVars

(***************************************************************************)
(* Specifications                                                          *)
(***************************************************************************)
NavInit ==
    /\ location = Home
    /\ rendered = <<PageWrapper(Home)>>
    /\ crashed = FALSE
    /\ navs = 0
    /\ eventsList = events
    /\ flagshipEvents = filter(events)
    /\ activeTab = InitialTab(filter(events))
    /\ showMore = {}

\* The gallery viewer is closed, the menu is closed, the page scrolls.
WidgetInit ==
    /\ selectedIndex = Null
    /\ direction = 0
    /\ galleryShowMore = FALSE
    /\ viewerShown = Null
    /\ isOpen = FALSE
    /\ bodyOverflow = ""
    /\ navbarMounted = TRUE

FormInit ==
    /\ inst = 1
    /\ form = EmptyForm
    /\ errors = {}
    /\ isSubmitting = FALSE
    /\ isSubmitted = FALSE
    /\ isSent = FALSE
    /\ jobs = <<>>
    /\ contacts = <<>>
    /\ now = 1
    /\ storage = "ok"
    /\ outbox = <<>>

\* The page transitions; the contact form is left alone.
InitNav ==
    /\ NavInit
    /\ WidgetInit
    /\ FormInit
    /\ env = [c \in Credentials |-> TRUE]

NextNav ==
    \/ \E p \in Paths : Navigate(p)
    \/ \E i \in 1..Len(rendered) : EnterComplete(i)
    \/ \E i \in 1..Len(rendered) : ExitComplete(i)

SpecNav == InitNav /\ [][NextNav]_vars

\* Finitely many navigation events; an animation that has started finishes.
NavigateFinite(p) == navs < MaxNavs /\ Navigate(p)

NextNavFinite ==
    \/ \E p \in Paths : NavigateFinite(p)
    \/ \E i \in 1..Len(rendered) : EnterComplete(i)
    \/ \E i \in 1..Len(rendered) : ExitComplete(i)

SpecNavFair ==
    /\ InitNav
    /\ [][NextNavFinite]_vars
    /\ WF_vars(\E i \in 1..Len(rendered) : EnterComplete(i))
    /\ WF_vars(\E i \in 1..Len(rendered) : ExitComplete(i))

\* The page transitions together with the events section of the home page.
NextHome ==
    \/ NextNav
    \/ \E id \in 1..Len(events) : SelectTab(id)
    \/ OpenEvent

SpecHome == InitNav /\ [][NextHome]_vars

\* The page transitions together with the description toggle of the event
\* pages.
NextEvent ==
    \/ NextNav
    \/ \E i \in 1..Len(rendered) : ToggleShowMore(i)

SpecEvent == InitNav /\ [][NextEvent]_vars

\* The pages are reached through the navigation bar.
NextMenu ==
    \/ ToggleMenu
    \/ \E t \in LinkTargets : MenuLink(t)
    \/ \E t \in LinkTargets : DesktopLink(t)
    \/ \E id \in Sections : handleNavigation(id)
    \/ LogoLink
    \/ BackdropClick
    \/ NavbarUnmount
    \/ NavbarMount
    \/ \E i \in 1..Len(rendered) : EnterComplete(i)
    \/ \E i \in 1..Len(rendered) : ExitComplete(i)

SpecMenu == InitNav /\ [][NextMenu]_vars

\* The gallery page is shown and its viewer is used.
InitGallery ==
    /\ location = <<"gallery">>
    /\ rendered = <<[PageWrapper(<<"gallery">>) EXCEPT !.phase = "shown"]>>
    /\ crashed = FALSE
    /\ navs = 0
    /\ eventsList = events
    /\ flagshipEvents = <<>>
    /\ activeTab = 0
    /\ showMore = {}
    /\ WidgetInit
    /\ FormInit
    /\ env = [c \in Credentials |-> TRUE]

NextGallery ==
    \/ \E i \in 0..(ViewerLength - 1) : OpenViewer(i)
    \/ ToggleGallery
    \/ NextButton
    \/ PrevButton
    \/ \E x \in DragOffsets : Drag(x)
    \/ CloseViewer
    \/ ViewerExitComplete

SpecGallery == InitGallery /\ [][NextGallery]_vars

\* The contact page is shown; the build sets any subset of the credentials.
InitForm ==
    /\ location = <<"contact">>
    /\ rendered = <<[PageWrapper(<<"contact">>) EXCEPT !.phase = "shown"]>>
    /\ crashed = FALSE
    /\ navs = 0
    /\ eventsList = events
    /\ flagshipEvents = <<>>
    /\ activeTab = 0
    /\ showMore = {}
    /\ WidgetInit
    /\ FormInit
    /\ env \in [Credentials -> BOOLEAN]

NextForm ==
    \/ \E f \in Fields : \E v \in InputsOf(f) : TypeField(f, v)
    \/ Submit
    \/ \E j \in 1..Len(jobs) : DeliveryAccepted(j)
    \/ \E j \in 1..Len(jobs) : DeliveryRaises(j)
    \/ \E j \in 1..Len(jobs) : DelayElapsed(j)
    \/ \E j \in 1..Len(jobs) : TimerFires(j)
    \/ Remount

SpecForm == InitForm /\ [][NextForm]_vars

\* The values of a field that pass its rules.
ValidInputs(f) == {v \in InputsOf(f) : FieldValid(f, v)}

\* The workflow with a user who types values that pass the rules (others
\* start no submission).
NextFormFair ==
    \/ \E f \in Fields : \E v \in ValidInputs(f) : TypeField(f, v)
    \/ Submit
    \/ \E j \in 1..Len(jobs) : DeliveryAccepted(j)
    \/ \E j \in 1..Len(jobs) : DeliveryRaises(j)
    \/ \E j \in 1..Len(jobs) : DelayElapsed(j)
    \/ \E j \in 1..Len(jobs) : TimerFires(j)
    \/ Remount

\* The timers of the browser fire: a delay or reset timer that is armed
\* elapses.  The mail service is not bound to answer.
SpecFormFair ==
    /\ InitForm
    /\ [][NextFormFair]_vars
    /\ \A j \in 1..MaxSubmits : WF_vars(DelayElapsed(j)) /\ WF_vars(TimerFires(j))

\* The contact form over a backup log that may be unusable.
InitFault ==
    /\ location = <<"contact">>
    /\ rendered = <<[PageWrapper(<<"contact">>) EXCEPT !.phase = "shown"]>>
    /\ crashed = FALSE
    /\ navs = 0
    /\ eventsList = events
    /\ flagshipEvents = <<>>
    /\ activeTab = 0
    /\ showMore = {}
    /\ WidgetInit
    /\ inst = 1
    /\ form = EmptyForm
    /\ errors = {}
    /\ isSubmitting = FALSE
    /\ isSubmitted = FALSE
    /\ isSent = FALSE
    /\ jobs = <<>>
    /\ contacts = <<>>
    /\ now = 1
    /\ outbox = <<>>
    /\ env \in [Credentials -> BOOLEAN]
    /\ storage \in StorageStates

NextFault ==
    \/ NextFormFair
    \/ \E j \in 1..Len(jobs) : BackupRaises(j)

SpecFault == InitFault /\ [][NextFault]_vars

(***************************************************************************)
(* Properties of the transition sequencer                                  *)
(***************************************************************************)
\* C1: the enter phase of a new page never starts before the exit phase of
\* the previous page has completed: no two rendered children are such that
\* one is entering or shown while the other is still shown or exiting.
C1_ExitBeforeEnter ==
    \A i, j \in 1..Len(rendered) :
        i # j => ~ ( /\ rendered[i].phase \in {"entering", "shown"}
                     /\ rendered[j].phase \in {"shown", "exiting"} )

\* The contact page enters alone: the home page it replaces has left.
C1_Witness ==
    /\ Len(rendered) = 1
    /\ rendered[1].key = <<"contact">>
    /\ rendered[1].phase = "entering"
    /\ location = <<"contact">>

\* C9: at most one transition is in flight: never two pages in their enter
\* phase or shown at once, and never two pages exiting at once, also when a
\* navigation event arrives in the middle of a transition.
C9_OneTransition ==
    /\ Cardinality({i \in 1..Len(rendered) :
                       rendered[i].phase \in {"entering", "shown"}}) <= 1
    /\ Cardinality({i \in 1..Len(rendered) : rendered[i].phase = "exiting"}) <= 1

\* A navigation event arrived while a page was still entering: that page
\* was sent to exit and the requested page is not rendered yet.
C9_Witness ==
    /\ Len(rendered) = 1
    /\ rendered[1].phase = "exiting"
    /\ rendered[1].interrupted
    /\ rendered[1].key = <<"gallery">>
    /\ location = <<"team">>

\* C10: for every slug that is no key of the details map the lookup yields
\* the "Event Not Found" placeholder and rendering the page does not raise.
C10_UnknownSlugPlaceholder ==
    /\ ~ crashed
    /\ \A i \in 1..Len(rendered) :
          ( /\ PageOf(rendered[i].key) = "event-detail"
            /\ rendered[i].key[2] \notin DOMAIN eventDetailsData )
              => eventData(rendered[i].key[2]) = NotFoundRecord

(***************************************************************************)
(* Properties of the submission workflow                                   *)
(***************************************************************************)
\* Positions of the log entries written by job j.
EntriesOf(j) ==
    {k \in 1..Len(contacts) : contacts[k].createdAt = jobs[j].appendedAt}

\* The entry job j is to leave in the log.
EntryFor(j) ==
    [name |-> jobs[j].data.name, email |-> jobs[j].data.email,
     subject |-> jobs[j].data.subject, message |-> jobs[j].data.message,
     createdAt |-> jobs[j].appendedAt]

\* The submission state of one onSubmit invocation.
JobState(j) ==
    CASE jobs[j].pc \in {"sending", "delay"}       -> "submitting"
      [] jobs[j].pc = "timer" /\ jobs[j].alerted   -> "error"
      [] jobs[j].pc = "timer" /\ ~ jobs[j].alerted -> "success"
      [] OTHER                                     -> "idle"

\* C2: when the delivery call raises, the workflow ends in Error with the
\* form not reset and exactly one backup entry appended for the submission.
C2_RaiseKeepsBackup ==
    \A j \in 1..Len(jobs) :
        jobs[j].delivery = "raised" =>
            /\ jobs[j].alerted
            /\ ~ jobs[j].resetDone
            /\ Cardinality(EntriesOf(j)) = 1

\* Submissions of form instance i that have not returned to Idle.
InFlight(i) == {j \in 1..Len(jobs) : jobs[j].inst = i /\ jobs[j].pc # "done"}

\* C3: no two submissions of one form instance are in flight together, and
\* from the start of a submit until the workflow is back in Idle the submit
\* control of the mounted form is disabled.
C3_NoConcurrentSubmit ==
    /\ \A i \in 1..inst : Cardinality(InFlight(i)) <= 1
    /\ InFlight(inst) # {} => (isSubmitting \/ isSent)

\* The delivery has settled and only the reset timer is pending: the
\* control is still disabled although isSubmitting is false again.
C3_Witness ==
    \E j \in 1..Len(jobs) :
        /\ jobs[j].inst = inst
        /\ jobs[j].pc = "timer"
        /\ ~ isSubmitting
        /\ isSent

\* The field constraints as the specification states them.
ConstraintsHold(d) ==
    /\ Len(d.name) >= 2
    /\ EmailPattern(d.email)
    /\ Len(d.subject) >= 3
    /\ Len(d.message) >= 8

\* C4: a submit with input that violates a field constraint stays in Idle:
\* while the form is invalid no submission starts and the sent indicator is
\* not set, the log grows only by the entry of a delivery accepted earlier,
\* and no submission ever carries invalid data.
C4_InvalidStaysIdle ==
    [][ /\ ~ ConstraintsHold(form) =>
            /\ Len(jobs') = Len(jobs)
            /\ (isSent' => isSent)
            /\ (contacts' # contacts =>
                   \E j \in 1..Len(jobs) :
                       jobs[j].pc = "sending" /\ jobs'[j].pc = "delay")
        /\ \A j \in 1..Len(jobs') : ConstraintsHold(jobs'[j].data)
        /\ \A k \in 1..Len(contacts') : ConstraintsHold(contacts'[k]) ]_vars

\* Submit was pressed with a one-character name: the error is reported and
\* nothing else happened.
C4_Witness ==
    /\ isSubmitted
    /\ form.name = Filled(1)
    /\ "name" \in errors
    /\ jobs = <<>>
    /\ contacts = <<>>
    /\ ~ isSent

C7_AppendOnly ==
    [][ /\ Len(contacts) <= Len(contacts')
        /\ SubSeq(contacts', 1, Len(contacts)) = contacts ]_vars

\* Two submissions have been appended.
C7_Witness == Len(contacts) = 2 /\ contacts[1].createdAt < contacts[2].createdAt

\* The steps a submission may take.
LinearStep(j) ==
    IF j > Len(jobs)
    THEN JobState(j)' = "submitting"
    ELSE <<JobState(j), JobState(j)'>> \in
            { <<"submitting", "submitting">>, <<"submitting", "success">>,
              <<"submitting", "error">>, <<"success", "success">>,
              <<"error", "error">>, <<"success", "idle">>,
              <<"error", "idle">>, <<"idle", "idle">> }

\* Delivery of job j was accepted or skipped and its entry is in the log.
DeliveredAndPersisted(j) ==
    /\ jobs[j].delivery \in {"accepted", "skipped"}
    /\ EntriesOf(j) # {}

KnownSlugs ==
    {events[n].slug : n \in 1..Len(events)} \cup DOMAIN eventDetailsData

\* C11: for every known slug the detail page gets the record of that slug:
\* the details map has an entry for it, the events list has exactly one
\* element with it, and both carry the same title.
C11_KnownSlugResolves ==
    \A i \in 1..Len(rendered) :
        (PageOf(rendered[i].key) = "event-detail" /\ rendered[i].key[2] \in KnownSlugs) =>
            LET s == rendered[i].key[2] IN
            /\ s \in DOMAIN eventDetailsData
            /\ eventData(s) = eventDetailsData[s]
            /\ Cardinality({n \in 1..Len(eventsList) : eventsList[n].slug = s}) = 1
            /\ "slug" \in DOMAIN eventInfo(s)
            /\ eventInfo(s).slug = s
            /\ eventInfo(s).title = eventData(s).title

\* The detail page of a known slug is shown.
C11_Witness ==
    /\ Len(rendered) = 1
    /\ rendered[1].key = <<"event", "hack-the-throne">>
    /\ rendered[1].phase = "shown"

PageIdentifiers ==
    {"home", "contact", "gallery", "schedule", "team", "dev-team",
     "event-detail", "workshop-detail"}

\* No enter or exit phase is running.
Quiescent == \A i \in 1..Len(rendered) : rendered[i].phase = "shown"

\* C12: once no transition is in progress exactly one page of the fixed
\* set is shown, never zero and never two.
C12_ExactlyOnePage ==
    Quiescent =>
        Cardinality({i \in 1..Len(rendered) :
                        PageOf(rendered[i].key) \in PageIdentifiers}) = 1

\* C13: a change of the path, also one that keeps the page and changes only
\* the route parameter, sends the page on display to its exit phase and
\* mounts a fresh instance for the new path, which enters; rendering again
\* with the same path changes nothing.
C13_ParamChangeIsTransition ==
    [][ ~ crashed' =>
          /\ \A i \in 1..Len(rendered) :
                ( /\ location' # location
                  /\ rendered[i].key = location
                  /\ rendered[i].phase \in {"entering", "shown"} )
                    => /\ Len(rendered') = Len(rendered)
                       /\ rendered'[i].key = rendered[i].key
                       /\ rendered'[i].phase = "exiting"
          /\ \A i \in 1..Len(rendered') :
                rendered'[i].key \in Mounted(rendered, rendered')
                    => rendered'[i] = PageWrapper(location')
          /\ AnimatePresence(rendered', location') = rendered' ]_vars

\* The detail page of one event leaves because the slug changed.
C13_Witness ==
    /\ Len(rendered) = 1
    /\ rendered[1].key = <<"event", "robodrive">>
    /\ rendered[1].phase = "exiting"
    /\ ~ rendered[1].interrupted
    /\ location = <<"event", "skycircuit">>

\* C14: with finitely many navigation events and animations that finish,
\* the sequencer ends showing the page of the last requested path and
\* stays there.
C14_TransitionsTerminate ==
    <>[]( /\ Len(rendered) = 1
          /\ rendered[1].key = location
          /\ rendered[1].phase = "shown" )

\* Position of the event with identifier id in the events list.
IndexOf(id) == CHOOSE n \in 1..Len(events) : events[n].id = id

\* C20: listing the flagship events is idempotent and keeps the list order:
\* the list of the mounted section holds exactly the events with isElite, in
\* the order of the events list, listing again gives the same sequence, and
\* the events list itself is never changed.
C20_FlagshipListing ==
    /\ eventsList = events
    /\ HasKey(rendered, Home) =>
        /\ filter(eventsList) = flagshipEvents
        /\ \A a \in 1..Len(flagshipEvents) :
              /\ flagshipEvents[a].isElite
              /\ \E n \in 1..Len(events) : events[n] = flagshipEvents[a]
        /\ \A n \in 1..Len(events) :
              events[n].isElite =>
                  \E a \in 1..Len(flagshipEvents) : flagshipEvents[a] = events[n]
        /\ \A a, b \in 1..Len(flagshipEvents) :
              a < b => IndexOf(flagshipEvents[a].id) < IndexOf(flagshipEvents[b].id)

\* The home page was left and entered again, and a tab was selected.
C20_Witness ==
    /\ navs >= 2
    /\ Len(rendered) = 1
    /\ rendered[1].key = Home
    /\ rendered[1].phase = "shown"
    /\ activeTab = 3
    /\ Len(flagshipEvents) = 4

(***************************************************************************)
(* Properties of the side effects of the submission workflow               *)
(***************************************************************************)
\* The sendForm calls made for job j.
CallsOf(j) == {n \in 1..Len(outbox) : outbox[n].job = j}

\* C15: each submit causes at most one delivery call and at most one backup
\* entry, every delivery call belongs to a submit, and the delivery calls
\* never outnumber the valid submits, also after a rejected delivery.
C15_AtMostOnceEffects ==
    /\ Len(outbox) <= Len(jobs)
    /\ Len(contacts) <= Len(jobs)
    /\ \A n \in 1..Len(outbox) :
          /\ outbox[n].job \in 1..Len(jobs)
          /\ outbox[n].payload = jobs[outbox[n].job].data
    /\ \A j \in 1..Len(jobs) :
          /\ Cardinality(CallsOf(j)) <= 1
          /\ Cardinality(EntriesOf(j)) <= 1
          /\ jobs[j].delivery = "skipped" => CallsOf(j) = {}

\* A delivery was rejected, the user submitted again, and each of the two
\* submits made one call.
C15_Witness ==
    /\ Len(jobs) = 2
    /\ jobs[1].delivery = "raised"
    /\ jobs[2].inst = jobs[1].inst
    /\ Len(outbox) = 2

\* The submissions that passed the delivery step.
Delivered == {j \in 1..Len(jobs) : jobs[j].delivery \in {"accepted", "skipped"}}

C17_DisabledUntilSettled ==
    [][ \A j \in 1..Len(jobs) :
          (jobs[j].pc = "sending" /\ jobs[j].inst = inst /\ inst' = inst) =>
              /\ SubmitDisabled
              /\ SubmitDisabled' \/ jobs'[j].delivery \in {"accepted", "raised"}
              /\ jobs'[j].pc = "sending" => SubmitDisabled'
              /\ jobs'[j].pc # "sending" =>
                    jobs'[j].delivery \in {"accepted", "raised"} ]_vars

\* A delivery is pending while the user goes on typing.
C17_Witness ==
    \E j \in 1..Len(jobs) :
        /\ jobs[j].pc = "sending"
        /\ jobs[j].inst = inst
        /\ form # jobs[j].data
        /\ SubmitDisabled

\* The delivery step of submission j is over and its workflow is not yet
\* back in Idle.
Settled(j) ==
    /\ j \in 1..Len(jobs)
    /\ jobs[j].delivery \in {"accepted", "skipped", "raised"}
    /\ jobs[j].pc # "done"

\* Submission j has ended and the submit control of its form is enabled.

BackToIdle(j) ==
    /\ j \in 1..Len(jobs)
    /\ jobs[j].pc = "done"
    /\ jobs[j].inst = inst => ~ SubmitDisabled

\* C18: every submission whose delivery call has settled, accepted, skipped
\* or raised, is eventually back in Idle with the submit control of its
\* form enabled again.
C18_SettledReturnsToIdle ==
    \A j \in 1..MaxSubmits : Settled(j) ~> BackToIdle(j)

\* A rejected submission is back in Idle and the form can be submitted.
C18_Witness ==
    \E j \in 1..Len(jobs) :
        /\ jobs[j].delivery = "raised"
        /\ jobs[j].inst = inst
        /\ BackToIdle(j)

\* The submissions in which the delivery call or the backup raised.
Failed == {j \in 1..Len(jobs) : jobs[j].delivery = "raised" \/ jobs[j].backup = "raised"}

\* C19: no failure leaves the workflow: a raised delivery or a raised read,
\* parse or write of the backup log gives the failure notice and arms the
\* reset timer, the page is not brought down, and after the timer the
\* submit control of the form is enabled.
C19_FailuresContained ==
    /\ ~ crashed
    /\ \A j \in 1..Len(jobs) :
          /\ \/ (jobs[j].pc = "sending" /\ jobs[j].delivery = "pending")
             \/ jobs[j].delivery \in {"accepted", "skipped", "raised"}
          /\ j \in Failed =>
                /\ jobs[j].alerted
                /\ jobs[j].pc \in {"timer", "done"}
                /\ ~ jobs[j].resetDone
                /\ (jobs[j].inst = inst /\ InFlight(inst) = {}) => ~ SubmitDisabled
          /\ (jobs[j].backup = "none" /\ jobs[j].pc # "sending") =>
                jobs[j].delivery = "raised"

\* The backup raised, the notice was given, and the user submitted again.
C19_Witness ==
    /\ Len(jobs) = 2
    /\ jobs[1].backup = "raised"
    /\ jobs[1].delivery = "accepted"
    /\ jobs[1].pc = "done"
    /\ jobs[2].inst = jobs[1].inst

(***************************************************************************)
(* Further properties of the submission workflow                           *)
(***************************************************************************)
\* The submissions whose delivery call has not settled.
Outstanding == {j \in 1..Len(jobs) : jobs[j].pc = "sending"}

\* C21 as stated: at most one delivery attempt is outstanding in the whole
\* application, also after the contact page was left and entered again.
C21_OneOutstandingDelivery == Cardinality(Outstanding) <= 1

\* C21, amended: at most one delivery attempt is outstanding per form
\* instance, so never more than form instances were mounted; a form mounted
\* later starts its own attempt beside a pending one.
C21_OneOutstandingPerInstance ==
    /\ \A i \in 1..inst :
          Cardinality({j \in Outstanding : jobs[j].inst = i}) <= 1
    /\ Cardinality(Outstanding) <= inst
    /\ \A j \in Outstanding : jobs[j].inst \in 1..inst

\* Two deliveries are outstanding, one of the form that was left and one
\* of the form mounted on return.
C21_Witness ==
    /\ Len(jobs) = 2
    /\ jobs[1].pc = "sending"
    /\ jobs[2].pc = "sending"
    /\ jobs[1].inst = 1
    /\ jobs[2].inst = 2

\* C22 as stated: the failure notice is given only when the delivery call
\* raised; an accepted delivery never ends with the notice.
C22_NoticeOnlyOnRaise ==
    \A j \in 1..Len(jobs) : jobs[j].alerted => jobs[j].delivery = "raised"

\* C22, amended: the failure notice is given exactly when the delivery call
\* or the backup step raised; an accepted delivery whose backup was written
\* never ends with the notice.
C22_NoticeOnlyOnFailure ==
    \A j \in 1..Len(jobs) :
        /\ jobs[j].alerted <=>
              (jobs[j].delivery = "raised" \/ jobs[j].backup = "raised")
        /\ (jobs[j].delivery = "accepted" /\ jobs[j].backup = "written")
              => ~ jobs[j].alerted
        /\ jobs[j].backup = "raised" => jobs[j].delivery \in {"accepted", "skipped"}

\* The delivery was accepted, the backup raised, and the notice was given.
C22_Witness ==
    \E j \in 1..Len(jobs) :
        /\ jobs[j].delivery = "accepted"
        /\ jobs[j].backup = "raised"
        /\ jobs[j].alerted
        /\ jobs[j].pc = "timer"

\* C23: the sent indicator is not displayed for a submission whose delivery
\* call raised: after the failure notice of the mounted form, while its
\* reset timer is pending, isSent is false.
C23_NoSentAfterRaise ==
    \A j \in 1..Len(jobs) :
        ( /\ jobs[j].inst = inst
          /\ jobs[j].delivery = "raised"
          /\ jobs[j].pc = "timer" ) => ~ isSent

\* C24: for one submission the four field values handed to the delivery
\* call and the four field values of its backup entry are the same,
\* whatever is typed while the delivery is outstanding.
C24_SamePayload ==
    \A j \in 1..Len(jobs) :
        \A n \in CallsOf(j) : \A k \in EntriesOf(j) : \A f \in Fields :
            contacts[k][f] = outbox[n].payload[f]

\* The user typed into the form while the delivery was outstanding, and
\* the entry is in the log.
C24_Witness ==
    \E j \in 1..Len(jobs) :
        /\ jobs[j].inst = inst
        /\ jobs[j].pc = "delay"
        /\ CallsOf(j) # {}
        /\ EntriesOf(j) # {}
        /\ form # jobs[j].data

(***************************************************************************)
(* Properties of the event pages, the gallery viewer and the menu          *)
(***************************************************************************)
\* C26 as stated: whenever an event detail page finishes entering, its
\* description is in the short form.
C26_ShortWhenEntered ==
    [][ \A i \in 1..Len(rendered) :
          ( /\ PageOf(rendered[i].key) = "event-detail"
            /\ rendered[i].phase = "entering"
            /\ i \in 1..Len(rendered')
            /\ rendered'[i].key = rendered[i].key
            /\ rendered'[i].phase = "shown" )
              => rendered[i].key \notin showMore' ]_vars

\* C26, amended: whenever an event detail page is mounted, its description
\* is in the short form, and a description becomes expanded only by the
\* toggle of a page that is in the DOM: the expanded state of one event
\* page never carries over to the event page mounted next.
C26_ShortWhenMounted ==
    [][ /\ \A k \in Mounted(rendered, rendered') : k \notin showMore'
        /\ \A k \in showMore' \ showMore :
              HasKey(rendered, k) /\ rendered' = rendered
        /\ \A k \in showMore' : HasKey(rendered', k) ]_vars

\* An event page reached by a second navigation was mounted in the short
\* form.
C26_Witness ==
    /\ Len(rendered) = 1
    /\ rendered[1].key = <<"event", "skycircuit">>
    /\ rendered[1].phase = "entering"
    /\ showMore = {}
    /\ navs >= 2

ViewerIndexes == {Null} \cup 0..(ViewerLength - 1)

\* A step of goNext or of goPrev, by button or by drag.
NextStep == NextButton \/ \E x \in DragOffsets : x < - DragThreshold /\ Drag(x)
PrevStep == PrevButton \/ \E x \in DragOffsets : x > DragThreshold /\ Drag(x)

\* C27: the selected index of the gallery viewer is always null or an index
\* of the image list; with the viewer open, next on the last image closes
\* it and next elsewhere adds one, previous on the first image changes
\* nothing and previous elsewhere subtracts one, and close gives null.
C27_ViewerIndex ==
    /\ selectedIndex \in ViewerIndexes
    /\ [][ /\ selectedIndex' \in ViewerIndexes
           /\ (selectedIndex # Null /\ NextStep) =>
                 selectedIndex' = IF selectedIndex = ViewerLength - 1
                                  THEN Null ELSE selectedIndex + 1
           /\ (selectedIndex # Null /\ PrevStep) =>
                 selectedIndex' = IF selectedIndex = 0
                                  THEN 0 ELSE selectedIndex - 1
           /\ CloseViewer => selectedIndex' = Null
           /\ selectedIndex # Null => viewerShown = selectedIndex ]_vars

\* Next on the last image, by a drag, has closed the viewer.
C27_Witness ==
    /\ selectedIndex = Null
    /\ viewerShown = ViewerLength - 1
    /\ direction = 1

\* C25: every in-app link target of the navigation bar resolves to a route,
\* so with the pages reached through the navigation bar the location always
\* matches a route and, once no transition is in progress, a page is shown.
C25_LinksResolve ==
    /\ PageOf(location) \in PageIdentifiers
    /\ Quiescent =>
          \E i \in 1..Len(rendered) : PageOf(rendered[i].key) \in PageIdentifiers

\* C28: the scroll lock of the body follows the mobile menu: while the
\* navigation bar is mounted the overflow is hidden exactly when the menu
\* is open, and without the navigation bar the body is unlocked.
C28_ScrollLockFollowsMenu ==
    /\ navbarMounted => (bodyOverflow = "hidden" <=> isOpen)
    /\ bodyOverflow \in {"hidden", ""}
    /\ ~ navbarMounted => (bodyOverflow = "" /\ ~ isOpen)

\* The menu was opened on a page reached through it: the body is locked.
C28_Witness ==
    /\ navbarMounted
    /\ isOpen
    /\ bodyOverflow = "hidden"
    /\ location = <<"team">>

\* C29: a menu link, a section button, the logo link or a click on the
\* backdrop, taken while the mobile menu is open, leaves the menu closed; a
\* section button pressed off the home path navigates to the home path, and
\* on the home path it changes no route.
C29_NavigationClosesMenu ==
    [][ /\ ( /\ isOpen
             /\ \/ \E t \in LinkTargets : MenuLink(t)
                \/ \E id \in Sections : handleNavigation(id)
                \/ LogoLink
                \/ BackdropClick ) => ~ isOpen'
        /\ \A id \in Sections :
              handleNavigation(id) =>
                  IF location # Home
                  THEN location' = Home
                  ELSE location' = location /\ rendered' = rendered ]_vars

\* A section button was pressed in the open menu of the team page: the
\* menu is closed and the team page leaves for the home page.
C29_Witness ==
    /\ ~ isOpen
    /\ navbarMounted
    /\ location = Home
    /\ Len(rendered) = 1
    /\ rendered[1].key = <<"team">>
    /\ rendered[1].phase = "exiting"
    /\ navs = 2
====
